---------------------------- MODULE Spec2Model ----------------------------
(* FileBox: blobs packed into container files, replicated to peers and    *)
(* uploaded to an object store.  Model of src/fid.go and src/filebox.go.  *)
(* Strings are sequences of character codes: 0..15 are the hexadecimal    *)
(* digits (0..9 double as the decimal digits), DASH is "-", JUNK is any   *)
(* character that is not a hexadecimal digit.                             *)
EXTENDS Integers, Sequences, FiniteSets, Bags, TLC

(***************************************************************************)
(* Bounds of the model                                                     *)
(***************************************************************************)
MaxAdds == 2        \* AddBlob calls in one run, all hosts together
MaxCalls == 3       \* GenerateWithMachineID calls of one process
OldOwn == 2         \* containers a process had created before a restart
MaxPosts == 2       \* replicate requests of outside clients in one run
SeqAdds == 3        \* AddBlob calls in a run that submits one blob at a time
MaxTick == 0        \* seconds the wall clock may advance past StartTime
StartTime == 1000   \* wall-clock second at process start
OldTime == 900      \* creation second of the files left by an earlier run

Hosts == {1, 2}
Peers(h) == Hosts \ {h}

\* maxFileSize, scaled from 100 MB to 2 bytes
MaxFileSize == 2
BlobSizes == 1..(MaxFileSize + 1)

DASH == 16
JUNK == 17
HexDigits == 0..15

(***************************************************************************)
(* fid.go                                                                  *)
(***************************************************************************)
RECURSIVE Pow16(_)
Pow16(k) == IF k = 0 THEN 1 ELSE 16 * Pow16(k - 1)

\* fmt "%08x" of a value below 2^31
Hex8(n) == [i \in 1..8 |-> (n \div Pow16(8 - i)) % 16]

RECURSIVE FromHex(_)
FromHex(s) ==
    IF s = << >> THEN 0
    ELSE 16 * FromHex(SubSeq(s, 1, Len(s) - 1)) + s[Len(s)]

RECURSIVE Decimal(_)
\* fmt "%d" of a natural number
Decimal(n) == IF n < 10 THEN <<n>> ELSE Decimal(n \div 10) \o <<n % 10>>

\* first four bytes of sha256("<now>-<seq>-<machineID>"), abstracted to an
\* injective mix of the three inputs over the modelled ranges
HashHead(now, seq, machineID) == (now * 4096 + seq * 64 + machineID) % 1048576
\* bytes 4..7 of the same digest, kept in FID.Hash but never printed
HashTail(now, seq, machineID) == ((now + seq + machineID) % 255) + 1

\* a generator that leaves the sequence field at its first value
GenerateSameSequence(machineID, now, seq) ==
    [MachineID |-> machineID, Timestamp |-> now, Sequence |-> 1,
     Hash |-> <<HashHead(now, seq, machineID), HashTail(now, seq, machineID)>>]

\* lines 45-52, with the results of lines 42 and 43
GenerateWithMachineID(machineID, now, seq) ==
    [MachineID |-> machineID, Timestamp |-> now, Sequence |-> seq,
     Hash |-> <<HashHead(now, seq, machineID), HashTail(now, seq, machineID)>>]

NewFIDWithMachineID(machineID, now, seq) ==
    GenerateWithMachineID(machineID, now, seq)

String(f) ==
    Hex8(f.MachineID) \o Hex8(f.Timestamp) \o Hex8(f.Sequence) \o Hex8(f.Hash[1])

ParseOK(fidStr) ==
    /\ Len(fidStr) = 32
    /\ \A i \in 1..Len(fidStr) : fidStr[i] \in HexDigits

\* defined where ParseOK holds; the last four bytes of Hash stay zero
ParseFID(fidStr) ==
    [MachineID |-> FromHex(SubSeq(fidStr, 1, 8)),
     Timestamp |-> FromHex(SubSeq(fidStr, 9, 16)),
     Sequence  |-> FromHex(SubSeq(fidStr, 17, 24)),
     Hash      |-> <<FromHex(SubSeq(fidStr, 25, 32)), 0>>]

S3Key(f) ==
    <<"files", Decimal(f.MachineID), Decimal(f.Timestamp), String(f)>>

\* generateMachineID: a hash of the host name; distinct hosts, distinct ids
generateMachineID(h) == h


(***************************************************************************)
(* State                                                                   *)
(***************************************************************************)
VARIABLES
    started,          \* host -> NewFileBox has returned (recoverFiles has run)
    files,            \* host -> fb.files: identifier string -> ContainerFile
    disk,             \* host -> storage directory: entry name -> file bytes
    sequenceCounter,  \* host -> the process-wide FID sequence counter
    adds,             \* host -> bag of AddBlob calls in progress
    uploads,          \* host -> bag of uploadContainerFile goroutines
    handlers,         \* host -> bag of handleReplicate requests in progress
    net,              \* bag of replicate requests sent and not yet received
    s3,               \* object store: key -> object body
    nAdds,            \* AddBlob calls made so far
    resp,             \* history: results returned by AddBlob, with the size
                      \* the call left and whether it started an upload
    created,          \* history: host -> identifiers it allocated
    picked,           \* history: host -> identifiers its AddBlob calls wrote to
    applied,          \* history: host -> replicated writes performed on its disk
    puts,             \* history: PutObject calls issued
    disk0,            \* history: host -> storage directory at process start
    replies,          \* history: the error replies of handleReplicate
    calls,            \* host -> bag of GenerateWithMachineID calls in progress
    issued,           \* history: host -> the FIDs generated, in the order of
                      \* the counter increments
    codec,            \* one FID on its way through String and ParseFID
    scan              \* host -> position of the recoverFiles loop

\* the state of the studies of fid.go and of the recovery loop, which the
\* actions of the file service leave alone
aside == <<calls, issued, codec, scan>>

\* the state of the file service
service == <<started, files, disk, sequenceCounter, adds, uploads, handlers,
             net, s3, nAdds, resp, created, picked, applied, puts, disk0,
             replies>>

vars == <<started, files, disk, sequenceCounter, adds, uploads, handlers, net,
          s3, nAdds, resp, created, picked, applied, puts, disk0, replies, aside>>

\* ContainerFile as registered by allocation and by the peer write path
\* (FilePath is storageDir/<identifier>: the key of disk; Created is dropped)
NewContainerFile(fid) ==
    [FID |-> fid, Size |-> 0, Uploaded |-> FALSE, Uploading |-> FALSE,
     Blobs |-> << >>]

\* the k-th submitted blob: n bytes, all equal to k
Payload(k, n) == [i \in 1..n |-> k]

Put(f, k, v) == [x \in DOMAIN f \cup {k} |-> IF x = k THEN v ELSE f[x]]

One(x) == SetToBag({x})

(***************************************************************************)
(* Storage directories a process may find at start                        *)
(***************************************************************************)
OwnOldName(h) ==
    String(GenerateWithMachineID(generateMachineID(h), OldTime, 1))
ShortName == <<1, 2, 3>>
NonHexName == [i \in 1..32 |-> IF i = 32 THEN JUNK ELSE 0]

\* entries left by an earlier run: a container this host created, a replica of
\* a container of every peer, and two entries that are no identifier
OldDisk(h) ==
    [name \in {OwnOldName(h)} \cup {OwnOldName(p) : p \in Peers(h)}
              \cup {ShortName, NonHexName} |-> <<9>>]

EmptyDisk == [name \in {} |-> << >>]

\* the host that may start on the directory of an earlier run
RestartedHost == CHOOSE h \in Hosts : \A g \in Hosts : h <= g

\* no generate call, no FID in the codec, no recovery loop in progress
NoCalls ==
    /\ calls = [h \in Hosts |-> EmptyBag]
    /\ issued = [h \in Hosts |-> << >>]

NoCodec == codec = [stage |-> "none"]

NoScan == scan = [h \in Hosts |-> [pc |-> "done", todo |-> {}]]

\* the processes before NewFileBox has run, on storage directories dir
Fresh(dir) ==
    /\ started = [h \in Hosts |-> FALSE]
    /\ files = [h \in Hosts |-> [name \in {} |-> NewContainerFile(0)]]
    /\ disk = dir
    /\ disk0 = dir
    /\ sequenceCounter = [h \in Hosts |-> 0]
    /\ adds = [h \in Hosts |-> EmptyBag]
    /\ uploads = [h \in Hosts |-> EmptyBag]
    /\ handlers = [h \in Hosts |-> EmptyBag]
    /\ net = EmptyBag
    /\ s3 = [k \in {} |-> << >>]
    /\ nAdds = 0
    /\ resp = {}
    /\ created = [h \in Hosts |-> {}]
    /\ picked = [h \in Hosts |-> {}]
    /\ applied = [h \in Hosts |-> {}]
    /\ puts = {}
    /\ replies = {}

Init ==
    /\ \E dir \in {[h \in Hosts |-> EmptyDisk],
                   [h \in Hosts |-> IF h = RestartedHost THEN OldDisk(h)
                                    ELSE EmptyDisk]} : Fresh(dir)
    /\ NoCalls
    /\ NoCodec
    /\ NoScan

(***************************************************************************)
(* recoverFiles (called by NewFileBox before the server listens)           *)
(***************************************************************************)
\* a scan that keeps every entry whose name parses, whoever created it
OwnedByAnyone(h, dir) == {name \in DOMAIN dir : ParseOK(name)}

\* entries the scan keeps: the name parses and carries this host's machine id
Owned(h, dir) ==
    {name \in DOMAIN dir :
        ParseOK(name) /\ ParseFID(name).MachineID = generateMachineID(h)}

recoverFiles(h) ==
    /\ ~started[h]
    /\ started' = [started EXCEPT ![h] = TRUE]
    /\ files' = [files EXCEPT ![h] =
                    [name \in Owned(h, disk[h]) |->
                        [FID |-> ParseFID(name), Size |-> Len(disk[h][name]),
                         Uploaded |-> FALSE, Uploading |-> FALSE,
                         Blobs |-> << >>]]]
    /\ uploads' = [uploads EXCEPT ![h] =
                    SetToBag({[fid |-> name, pc |-> "check", key |-> << >>] :
                                name \in Owned(h, disk[h])})]
    /\ UNCHANGED <<disk, sequenceCounter, adds, handlers, net, s3, nAdds, resp,
                   created, picked, applied, puts, disk0, replies, aside>>


(***************************************************************************)
(* getOrCreateContainerFile: the outcomes of one call under fileLock.      *)
(* Go iterates a map in no fixed order, so any fitting container may be    *)
(* the one returned.                                                       *)
(***************************************************************************)
\* a capacity test that refuses a blob that would fill the container exactly
FitsBelow(cf, requiredSpace) ==
    /\ ~cf.Uploaded
    /\ ~cf.Uploading
    /\ cf.Size + requiredSpace < MaxFileSize

Fits(cf, requiredSpace) ==
    /\ ~cf.Uploaded
    /\ ~cf.Uploading
    /\ cf.Size + requiredSpace <= MaxFileSize

getOrCreateContainerFile(h, requiredSpace, now) ==
    LET found == {name \in DOMAIN files[h] : Fits(files[h][name], requiredSpace)}
        seq   == sequenceCounter[h] + 1
        fid   == NewFIDWithMachineID(generateMachineID(h), now, seq)
    IN  IF found # {}
        THEN {[fid |-> name, files |-> files[h], seq |-> sequenceCounter[h],
               isNew |-> FALSE] : name \in found}
        ELSE {[fid |-> String(fid),
               files |-> Put(files[h], String(fid), NewContainerFile(fid)),
               seq |-> seq, isNew |-> TRUE]}

Clock == StartTime..(StartTime + MaxTick)

(***************************************************************************)
(* AddBlob, one action per lock region or unlocked access                  *)
(***************************************************************************)
\* size is the value line 200 left in containerFile.Size
AddTask(pc, data, fid, off, ord) ==
    [pc |-> pc, data |-> data, fid |-> fid, off |-> off, ord |-> ord,
     size |-> 0]

Step(h, t, t2) == adds' = [adds EXCEPT ![h] = (@ (-) One(t)) (+) One(t2)]

\* a size check that lets every blob through
TooLargeNever(requiredSpace) == FALSE

\* line 156
TooLarge(requiredSpace) == requiredSpace > MaxFileSize

\* lines 155-158: the blob can fit in no container
AddBlobTooLarge(h) ==
    /\ started[h]
    /\ nAdds < MaxAdds
    /\ \E n \in BlobSizes :
        /\ TooLarge(n)
        /\ resp' = resp \cup {[host |-> h, call |-> nAdds + 1, ok |-> FALSE,
                               id |-> << >>, data |-> Payload(nAdds + 1, n),
                               fid |-> << >>, size |-> 0, trigger |-> FALSE,
                               err |-> "blob size exceeds maximum file size"]}
    /\ nAdds' = nAdds + 1
    /\ UNCHANGED <<started, files, disk, sequenceCounter, adds, uploads,
                   handlers, net, s3, created, picked, applied, puts, disk0, replies, aside>>

\* lines 155-161, for a run of at most limit calls
AddBlobBeginWithin(h, limit) ==
    /\ started[h]
    /\ nAdds < limit
    /\ \E n \in BlobSizes, now \in Clock :
        /\ ~TooLarge(n)
        /\ \E r \in getOrCreateContainerFile(h, n, now) :
            /\ files' = [files EXCEPT ![h] = r.files]
            /\ sequenceCounter' = [sequenceCounter EXCEPT ![h] = r.seq]
            /\ created' = [created EXCEPT ![h] =
                              IF r.isNew THEN @ \cup {r.fid} ELSE @]
            /\ adds' = [adds EXCEPT ![h] =
                          @ (+) One(AddTask("check", Payload(nAdds + 1, n),
                                            r.fid, 0, 0))]
    /\ nAdds' = nAdds + 1
    /\ UNCHANGED <<started, disk, uploads, handlers, net, s3, resp, picked,
                   applied, puts, disk0, replies, aside>>

AddBlobBegin(h) == AddBlobBeginWithin(h, MaxAdds)

\* lines 164-169: the double check under the read lock
AddBlobCheck(h) ==
    /\ \E t \in BagToSet(adds[h]) :
        /\ t.pc = "check"
        /\ LET canFit == files[h][t.fid].Size + Len(t.data) <= MaxFileSize
           IN  Step(h, t, [t EXCEPT !.pc = IF canFit THEN "open"
                                                     ELSE "reacquire"])
    /\ UNCHANGED <<started, files, disk, sequenceCounter, uploads, handlers,
                   net, s3, nAdds, resp, created, picked, applied, puts, disk0, replies, aside>>

\* line 171
AddBlobReacquire(h) ==
    /\ \E t \in BagToSet(adds[h]), now \in Clock :
        /\ t.pc = "reacquire"
        /\ \E r \in getOrCreateContainerFile(h, Len(t.data), now) :
            /\ files' = [files EXCEPT ![h] = r.files]
            /\ sequenceCounter' = [sequenceCounter EXCEPT ![h] = r.seq]
            /\ created' = [created EXCEPT ![h] =
                              IF r.isNew THEN @ \cup {r.fid} ELSE @]
            /\ Step(h, t, [t EXCEPT !.pc = "open", !.fid = r.fid])
    /\ UNCHANGED <<started, disk, uploads, handlers, net, s3, nAdds, resp,
                   picked, applied, puts, disk0, replies, aside>>

\* lines 175-182: O_CREATE|O_APPEND, then offset := containerFile.Size, read
\* without the lock
AddBlobOpen(h) ==
    /\ \E t \in BagToSet(adds[h]) :
        /\ t.pc = "open"
        /\ disk' = [disk EXCEPT ![h] =
                      IF t.fid \in DOMAIN @ THEN @ ELSE Put(@, t.fid, << >>)]
        /\ picked' = [picked EXCEPT ![h] = @ \cup {t.fid}]
        /\ Step(h, t, [t EXCEPT !.pc = "write",
                                !.off = files[h][t.fid].Size])
    /\ UNCHANGED <<started, files, sequenceCounter, uploads, handlers, net, s3,
                   nAdds, resp, created, applied, puts, disk0, replies, aside>>

\* line 183: O_APPEND writes at the end of the file, whatever offset holds
AddBlobWrite(h) ==
    /\ \E t \in BagToSet(adds[h]) :
        /\ t.pc = "write"
        /\ disk' = [disk EXCEPT ![h][t.fid] = @ \o t.data]
        /\ Step(h, t, [t EXCEPT !.pc = "blobid"])
    /\ UNCHANGED <<started, files, sequenceCounter, uploads, handlers, net, s3,
                   nAdds, resp, created, picked, applied, puts, disk0, replies, aside>>

\* line 189: len(containerFile.Blobs), read without the lock
AddBlobID(h) ==
    /\ \E t \in BagToSet(adds[h]) :
        /\ t.pc = "blobid"
        /\ Step(h, t, [t EXCEPT !.pc = "book",
                                !.ord = Len(files[h][t.fid].Blobs)])
    /\ UNCHANGED <<started, files, disk, sequenceCounter, uploads, handlers,
                   net, s3, nAdds, resp, created, picked, applied, puts, disk0, replies, aside>>

BlobID(fidStr, ord) == fidStr \o <<DASH>> \o Decimal(ord)

BlobInfo(t) ==
    [ID |-> BlobID(t.fid, t.ord), Offset |-> t.off, Length |-> Len(t.data),
     Size |-> Len(t.data)]

\* lines 198-201
AddBlobBook(h) ==
    /\ \E t \in BagToSet(adds[h]) :
        /\ t.pc = "book"
        /\ files' = [files EXCEPT ![h][t.fid] =
                       [@ EXCEPT !.Blobs = Append(@, BlobInfo(t)),
                                 !.Size = @ + Len(t.data)]]
        /\ Step(h, t, [t EXCEPT !.pc = "finish",
                                !.size = files[h][t.fid].Size + Len(t.data)])
    /\ UNCHANGED <<started, disk, sequenceCounter, uploads, handlers, net, s3,
                   nAdds, resp, created, picked, applied, puts, disk0, replies, aside>>

UploadTask(fidStr) == [fid |-> fidStr, pc |-> "check", key |-> << >>]

\* replicateBlob and the head of sendBlobToReplica: one request per peer
Requests(h, fidStr, data, offset, length) ==
    SetToBag({[to |-> p, file_id |-> fidStr, blob |-> data,
               offset |-> Decimal(offset), length |-> Decimal(length),
               host_id |-> h, machine_id |-> generateMachineID(h)] :
                p \in Peers(h)})

\* a trigger for containers that have outgrown the maximum only
OverFull(size) == size > MaxFileSize

\* line 204
Full(size) == size >= MaxFileSize

\* a call that returns only when the peers have taken this host's requests
ReturnAfterDelivery(h) == \A m \in BagToSet(net) : m.host_id # h

\* lines 206, 212, 215: uploadContainerFile and replicateBlob are started with
\* go statements; the return waits for neither
ReturnReady(h) == TRUE

\* lines 204-216: the size is read again without the lock
AddBlobFinish(h) ==
    /\ ReturnReady(h)
    /\ \E t \in BagToSet(adds[h]) :
        /\ t.pc = "finish"
        /\ uploads' = [uploads EXCEPT ![h] =
                         IF Full(files[h][t.fid].Size)
                         THEN @ (+) One(UploadTask(t.fid)) ELSE @]
        /\ net' = net (+) Requests(h, t.fid, t.data, t.off, Len(t.data))
        /\ resp' = resp \cup {[host |-> h, call |-> t.data[1], ok |-> TRUE,
                               id |-> BlobID(t.fid, t.ord), data |-> t.data,
                               fid |-> t.fid, size |-> t.size,
                               trigger |-> Full(files[h][t.fid].Size),
                               err |-> ""]}
        /\ adds' = [adds EXCEPT ![h] = @ (-) One(t)]
    /\ UNCHANGED <<started, files, disk, sequenceCounter, handlers, s3, nAdds,
                   created, picked, applied, puts, disk0, replies, aside>>


(***************************************************************************)
(* uploadContainerFile                                                     *)
(***************************************************************************)
\* a key built from the uploading host's own machine id
UploadKeyOfUploader(h, cf, fileID) ==
    <<"files", Decimal(generateMachineID(h)), fileID>>

\* line 349; h is the uploading host, which the key does not use
UploadKey(h, cf, fileID) == <<"files", Decimal(cf.FID.MachineID), fileID>>

\* lines 335-341: the flags are read after the read lock is released
UploadCheck(h) ==
    /\ \E u \in BagToSet(uploads[h]) :
        /\ u.pc = "check"
        /\ uploads' = [uploads EXCEPT ![h] =
              IF \/ u.fid \notin DOMAIN files[h]
                 \/ files[h][u.fid].Uploaded
                 \/ files[h][u.fid].Uploading
              THEN @ (-) One(u)
              ELSE (@ (-) One(u)) (+) One([u EXCEPT !.pc = "mark"])]
    /\ UNCHANGED <<started, files, disk, sequenceCounter, adds, handlers, net,
                   s3, nAdds, resp, created, picked, applied, puts, disk0, replies, aside>>

\* lines 344-357: set Uploading, compute the key, open the file; when the open
\* fails the goroutine returns with Uploading still set
UploadMarkOn(h, opens) ==
    /\ \E u \in BagToSet(uploads[h]), opened \in opens :
        /\ u.pc = "mark"
        /\ files' = [files EXCEPT ![h][u.fid].Uploading = TRUE]
        /\ uploads' = [uploads EXCEPT ![h] =
              IF opened
              THEN (@ (-) One(u)) (+)
                   One([u EXCEPT !.pc = "put",
                                 !.key = UploadKey(h, files[h][u.fid], u.fid)])
              ELSE @ (-) One(u)]
    /\ UNCHANGED <<started, disk, sequenceCounter, adds, handlers, net, s3,
                   nAdds, resp, created, picked, applied, puts, disk0, replies, aside>>

UploadMark(h) == UploadMarkOn(h, BOOLEAN)

\* lines 359-363: PutObject returns, with or without an error
UploadPutOn(h, stores) ==
    /\ \E u \in BagToSet(uploads[h]), stored \in stores :
        /\ u.pc = "put"
        /\ s3' = IF stored THEN Put(s3, u.key, disk[h][u.fid]) ELSE s3
        /\ puts' = puts \cup {[host |-> h, fid |-> u.fid, key |-> u.key]}
        /\ uploads' = [uploads EXCEPT ![h] =
              (@ (-) One(u)) (+)
              One([u EXCEPT !.pc = IF stored THEN "done" ELSE "failed"])]
    /\ UNCHANGED <<started, files, disk, sequenceCounter, adds, handlers, net,
                   nAdds, resp, created, picked, applied, disk0, replies, aside>>

UploadPut(h) == UploadPutOn(h, BOOLEAN)

\* lines 365-372
UploadFailed(h) ==
    /\ \E u \in BagToSet(uploads[h]) :
        /\ u.pc = "failed"
        /\ files' = [files EXCEPT ![h][u.fid].Uploading = FALSE]
        /\ uploads' = [uploads EXCEPT ![h] = @ (-) One(u)]
    /\ UNCHANGED <<started, disk, sequenceCounter, adds, handlers, net, s3,
                   nAdds, resp, created, picked, applied, puts, disk0, replies, aside>>

\* lines 374-380
UploadDone(h) ==
    /\ \E u \in BagToSet(uploads[h]) :
        /\ u.pc = "done"
        /\ files' = [files EXCEPT ![h][u.fid] =
                       [@ EXCEPT !.Uploaded = TRUE, !.Uploading = FALSE]]
        /\ uploads' = [uploads EXCEPT ![h] = @ (-) One(u)]
    /\ UNCHANGED <<started, disk, sequenceCounter, adds, handlers, net, s3,
                   nAdds, resp, created, picked, applied, puts, disk0, replies, aside>>

(***************************************************************************)
(* handleReplicate                                                         *)
(***************************************************************************)
\* a write that ignores the offset and appends, as O_APPEND would
WriteAtEnd(old, offset, data) == old \o data

\* Seek(offset, 0) then Write on a file opened without O_APPEND or O_TRUNC;
\* a gap past the old end of the file reads as zero bytes
WriteAt(old, offset, data) ==
    LET end == IF offset + Len(data) > Len(old) THEN offset + Len(data)
               ELSE Len(old)
    IN  [i \in 1..end |->
            IF i > offset /\ i <= offset + Len(data) THEN data[i - offset]
            ELSE IF i <= Len(old) THEN old[i]
            ELSE 0]

RECURSIVE Digits(_, _)
\* the value of the decimal digits at the head of str, after acc
Digits(str, acc) ==
    IF str = << >> \/ Head(str) > 9 THEN acc
    ELSE Digits(Tail(str), 10 * acc + Head(str))

\* lines 521-523: fmt.Sscanf(str, "%d", &n) on n = 0; the error is dropped,
\* so text that is no number leaves 0
Sscanf(str) ==
    IF str # << >> /\ Head(str) = DASH THEN 0 - Digits(Tail(str), 0)
    ELSE Digits(str, 0)

\* a test that looks at the container id only
MissingFileID(m) == m.file_id = << >>

\* line 516; an absent form field reads as the empty string
MissingField(m) ==
    m.file_id = << >> \/ m.offset = << >> \/ m.length = << >>

\* the request as the handler holds it from line 523 on
Parsed(m) ==
    [m EXCEPT !.to = "write", !.offset = Sscanf(m.offset),
              !.length = Sscanf(m.length)]

\* http.Error(w, text, http.StatusBadRequest) for request m
BadRequest(h, m, text) == [host |-> h, form |-> m, status |-> 400, text |-> text]

\* lines 510-546: check the fields, look the container up, register it when
\* absent
ReplicateRegister(h) ==
    /\ started[h]
    /\ \E m \in BagToSet(net) :
        /\ m.to = h
        /\ net' = net (-) One(m)
        /\ IF MissingField(m)
           THEN /\ files' = files
                /\ handlers' = handlers
                /\ replies' = replies \cup
                      {BadRequest(h, m, "Missing required fields")}
           ELSE IF m.file_id \in DOMAIN files[h]
           THEN /\ files' = files
                /\ handlers' = [handlers EXCEPT ![h] = @ (+) One(Parsed(m))]
                /\ replies' = replies
           ELSE IF ParseOK(m.file_id)
           THEN /\ files' = [files EXCEPT ![h] =
                               Put(@, m.file_id,
                                   NewContainerFile(ParseFID(m.file_id)))]
                /\ handlers' = [handlers EXCEPT ![h] = @ (+) One(Parsed(m))]
                /\ replies' = replies
           ELSE /\ files' = files
                /\ handlers' = handlers
                /\ replies' = replies \cup {BadRequest(h, m, "Invalid file ID")}
    /\ UNCHANGED <<started, disk, sequenceCounter, adds, uploads, s3, nAdds,
                   resp, created, picked, applied, puts, disk0, aside>>

\* lines 549-566
ReplicateWrite(h) ==
    /\ \E r \in BagToSet(handlers[h]) :
        /\ r.to = "write"
        /\ disk' = [disk EXCEPT ![h] =
                      Put(@, r.file_id,
                          WriteAt(IF r.file_id \in DOMAIN @ THEN @[r.file_id]
                                  ELSE << >>, r.offset, r.blob))]
        /\ applied' = [applied EXCEPT ![h] =
                         @ \cup {[file_id |-> r.file_id, blob |-> r.blob,
                                  offset |-> r.offset, length |-> r.length]}]
        /\ handlers' = [handlers EXCEPT ![h] =
                          (@ (-) One(r)) (+) One([r EXCEPT !.to = "size"])]
    /\ UNCHANGED <<started, files, sequenceCounter, adds, uploads, net, s3,
                   nAdds, resp, created, picked, puts, disk0, replies, aside>>

\* a size update that takes the end of the last write, larger or not
EndOfWrite(size, offset, length) == offset + length

\* lines 570-572
GrownSize(size, offset, length) ==
    IF offset + length > size THEN offset + length ELSE size

\* lines 568-576
ReplicateSize(h) ==
    /\ \E r \in BagToSet(handlers[h]) :
        /\ r.to = "size"
        /\ files' = [files EXCEPT ![h][r.file_id].Size =
                       GrownSize(@, r.offset, r.length)]
        /\ handlers' = [handlers EXCEPT ![h] = @ (-) One(r)]
    /\ UNCHANGED <<started, disk, sequenceCounter, adds, uploads, net, s3,
                   nAdds, resp, created, picked, applied, puts, disk0, replies, aside>>

(***************************************************************************)
(* GetBlob: the result of a call in the current state                      *)
(***************************************************************************)
RECURSIVE Split(_, _)
\* strings.Split
Split(s, sep) ==
    IF \A i \in 1..Len(s) : s[i] # sep THEN <<s>>
    ELSE LET i == CHOOSE j \in 1..Len(s) :
                     s[j] = sep /\ \A k \in 1..(j - 1) : s[k] # sep
         IN  <<SubSeq(s, 1, i - 1)>> \o Split(SubSeq(s, i + 1, Len(s)), sep)

RECURSIVE Join(_, _)
\* strings.Join
Join(parts, sep) ==
    IF parts = << >> THEN << >>
    ELSE IF Len(parts) = 1 THEN parts[1]
    ELSE parts[1] \o <<sep>> \o Join(Tail(parts), sep)

Failure(kind) == [err |-> kind, data |-> << >>]

GetBlob(h, blobID) ==
    LET parts     == Split(blobID, DASH)
        fileID    == Join(SubSeq(parts, 1, Len(parts) - 1), DASH)
        blobIndex == Len(parts) - 1
    IN  IF Len(parts) < 2 THEN Failure("invalid blob ID format")
        ELSE IF fileID \notin DOMAIN files[h]
        THEN Failure("container file not found")
        ELSE IF blobIndex >= Len(files[h][fileID].Blobs)
        THEN Failure("blob index out of range")
        ELSE LET blobInfo == files[h][fileID].Blobs[blobIndex + 1]
             IN  IF fileID \notin DOMAIN disk[h]
                 THEN Failure("error opening container file")
                 ELSE IF blobInfo.Offset + blobInfo.Length
                            > Len(disk[h][fileID])
                 THEN Failure("error reading blob data")
                 ELSE [err |-> "",
                       data |-> SubSeq(disk[h][fileID], blobInfo.Offset + 1,
                                       blobInfo.Offset + blobInfo.Length)]

(***************************************************************************)
(* Specification                                                           *)
(***************************************************************************)
Next ==
    \E h \in Hosts :
        \/ recoverFiles(h)
        \/ AddBlobTooLarge(h)
        \/ AddBlobBegin(h)
        \/ AddBlobCheck(h)
        \/ AddBlobReacquire(h)
        \/ AddBlobOpen(h)
        \/ AddBlobWrite(h)
        \/ AddBlobID(h)
        \/ AddBlobBook(h)
        \/ AddBlobFinish(h)
        \/ UploadCheck(h)
        \/ UploadMark(h)
        \/ UploadPut(h)
        \/ UploadFailed(h)
        \/ UploadDone(h)
        \/ ReplicateRegister(h)
        \/ ReplicateWrite(h)
        \/ ReplicateSize(h)

Spec == Init /\ [][Next]_vars

(***************************************************************************)
(* Sequential submission: one host receives the blobs, one call at a time, *)
(* on empty storage directories; replication and uploads run as before.    *)
(* AddBlobReacquire is left out: with no concurrent writer the double      *)
(* check never fails.                                                      *)
(***************************************************************************)
SeqHost == CHOOSE h \in Hosts : \A g \in Hosts : h <= g

InitSeq == Init /\ disk = [h \in Hosts |-> EmptyDisk]

SeqTooLarge(h) == h = SeqHost /\ adds[h] = EmptyBag /\ AddBlobTooLarge(h)

SeqBegin(h) ==
    h = SeqHost /\ adds[h] = EmptyBag /\ AddBlobBeginWithin(h, SeqAdds)

NextSeq ==
    \E h \in Hosts :
        \/ recoverFiles(h)
        \/ SeqTooLarge(h)
        \/ SeqBegin(h)
        \/ AddBlobCheck(h)
        \/ AddBlobOpen(h)
        \/ AddBlobWrite(h)
        \/ AddBlobID(h)
        \/ AddBlobBook(h)
        \/ AddBlobFinish(h)
        \/ UploadCheck(h)
        \/ UploadMark(h)
        \/ UploadPut(h)
        \/ UploadFailed(h)
        \/ UploadDone(h)
        \/ ReplicateRegister(h)
        \/ ReplicateWrite(h)
        \/ ReplicateSize(h)

SpecSeq == InitSeq /\ [][NextSeq]_vars

(***************************************************************************)
(* Concurrent calls of FID.GenerateWithMachineID in one process.  The      *)
(* counter is a uint32; the calls modelled stay far below 2^32.            *)
(***************************************************************************)
\* time.Now().Unix() is the wall clock, which may stand still or step back
WallClock == {OldTime, StartTime}

\* line 42: the call reads the clock
GenerateNow(h) ==
    /\ BagCardinality(calls[h]) + Len(issued[h]) < MaxCalls
    /\ \E now \in WallClock :
          calls' = [calls EXCEPT ![h] = @ (+) One([now |-> now])]
    /\ UNCHANGED <<service, issued, codec, scan>>

\* lines 43-52: atomic.AddUint32 returns the new value; the rest of the call
\* works on that value and on the caller's own FID
GenerateAdd(h) ==
    /\ \E c \in BagToSet(calls[h]) :
          LET seq == sequenceCounter[h] + 1
          IN  /\ sequenceCounter' = [sequenceCounter EXCEPT ![h] = seq]
              /\ issued' = [issued EXCEPT ![h] =
                              Append(@, GenerateWithMachineID(
                                            generateMachineID(h), c.now, seq))]
              /\ calls' = [calls EXCEPT ![h] = @ (-) One(c)]
    /\ UNCHANGED <<started, files, disk, adds, uploads, handlers, net, s3,
                   nAdds, resp, created, picked, applied, puts, disk0, replies, codec,
                   scan>>

NextGen == \E h \in Hosts : GenerateNow(h) \/ GenerateAdd(h)

SpecGen == InitSeq /\ [][NextGen]_vars

(***************************************************************************)
(* FID.String and ParseFID over the full range of the fields.  MachineID   *)
(* and Sequence are uint32 and Timestamp is int64, beyond the integers of  *)
(* the model checker, so here a field value is the sequence of its         *)
(* hexadecimal digits without leading zeros (zero is <<0>>).  Timestamps   *)
(* are not negative: the clock is not set before 1970.                     *)
(***************************************************************************)
RECURSIVE Wide(_)
\* the digits of a natural number
Wide(n) == IF n < 16 THEN <<n>> ELSE Wide(n \div 16) \o <<n % 16>>

\* the largest value of k hexadecimal digits
Ones(k) == [i \in 1..k |-> 15]

\* 16^k
OneZeros(k) == <<1>> \o [i \in 1..k |-> 0]

\* fmt "%08x": at least eight digits, zero-padded on the left; a value of
\* more than eight digits is printed in full
Fmt08x(d) == IF Len(d) >= 8 THEN d ELSE [i \in 1..(8 - Len(d)) |-> 0] \o d

\* lines 56-60
StringWide(f) ==
    Fmt08x(f.MachineID) \o Fmt08x(f.Timestamp) \o Fmt08x(f.Sequence)
        \o Fmt08x(f.Hash)

RECURSIVE Uint32(_)
\* lines 78-82: the value of four bytes, big-endian
Uint32(digits) ==
    IF Len(digits) > 1 /\ Head(digits) = 0 THEN Uint32(Tail(digits))
    ELSE digits

\* lines 78-84, where ParseOK holds
ParseFIDWide(fidStr) ==
    [MachineID |-> Uint32(SubSeq(fidStr, 1, 8)),
     Timestamp |-> Uint32(SubSeq(fidStr, 9, 16)),
     Sequence  |-> Uint32(SubSeq(fidStr, 17, 24)),
     Hash      |-> Uint32(SubSeq(fidStr, 25, 32))]

\* machine ids: the hosts' and the largest uint32
WideMachineIDs == {Wide(generateMachineID(h)) : h \in Hosts} \cup {Ones(8)}

\* seconds since 1970: the two times of the file service, the last second
\* of 32 bits (2106-02-07 06:28:15 UTC), the next second, the largest int64
WideTimestamps ==
    {Wide(OldTime), Wide(StartTime), Ones(8), OneZeros(8), <<7>> \o Ones(15)}

WideSequences == {Wide(1), Wide(MaxCalls), Ones(8)}

\* the FIDs GenerateWithMachineID can produce from these; Hash is the first
\* four bytes of the digest
WideFIDs ==
    {[MachineID |-> m, Timestamp |-> t, Sequence |-> q, Hash |-> Ones(8)] :
        m \in WideMachineIDs, t \in WideTimestamps, q \in WideSequences}

InitCodec ==
    /\ Fresh([h \in Hosts |-> EmptyDisk])
    /\ NoCalls
    /\ NoScan
    /\ codec \in {[stage |-> "fid", fid |-> f] : f \in WideFIDs}

\* fid.String()
Encode ==
    /\ codec.stage = "fid"
    /\ codec' = [stage |-> "string", fid |-> codec.fid,
                 str |-> StringWide(codec.fid)]
    /\ UNCHANGED <<service, calls, issued, scan>>

\* ParseFID(str): an error at line 65 or 71, or the FID of line 77
Decode ==
    /\ codec.stage = "string"
    /\ codec' = IF ParseOK(codec.str)
                THEN [stage |-> "parsed", fid |-> codec.fid,
                      str |-> codec.str, out |-> ParseFIDWide(codec.str)]
                ELSE [stage |-> "error", fid |-> codec.fid,
                      str |-> codec.str]
    /\ UNCHANGED <<service, calls, issued, scan>>

NextCodec == Encode \/ Decode

SpecCodec == InitCodec /\ [][NextCodec]_vars

(***************************************************************************)
(* NewFileBox on a directory with several containers of the host's own:    *)
(* the recovery loop entry by entry, and the upload goroutines it starts,  *)
(* with the read lock of lines 335-337 taken and released in steps of      *)
(* their own.  fileLock is a sync.RWMutex: Lock waits while a reader holds *)
(* it; the regions under Lock are single steps.                            *)
(***************************************************************************)
\* the character codes, for the order of file names
Ascii(c) == IF c < 10 THEN 48 + c
            ELSE IF c < 16 THEN 87 + c
            ELSE IF c = DASH THEN 45
            ELSE 103

\* a < b as strings
NameBefore(a, b) ==
    \E i \in 1..(Len(a) + 1) :
        /\ \A k \in 1..(i - 1) : k <= Len(b) /\ a[k] = b[k]
        /\ IF i > Len(a) THEN Len(b) >= i
           ELSE i <= Len(b) /\ Ascii(a[i]) < Ascii(b[i])

\* line 391: os.ReadDir returns the entries sorted by file name
FirstEntry(todo) ==
    CHOOSE name \in todo : \A other \in todo \ {name} : NameBefore(name, other)

\* the directory of an earlier run that created OldOwn containers, held a
\* replica of one container of every peer and has one foreign file
ScanDisk(h) ==
    [name \in {String(GenerateWithMachineID(generateMachineID(h), OldTime, q)) :
                  q \in 1..OldOwn}
              \cup {OwnOldName(p) : p \in Peers(h)} \cup {ShortName} |-> <<9>>]

InitLock ==
    /\ Fresh([h \in Hosts |-> IF h = RestartedHost THEN ScanDisk(h)
                               ELSE EmptyDisk])
    /\ NoCalls
    /\ NoCodec
    /\ scan = [h \in Hosts |-> [pc |-> "next", todo |-> DOMAIN disk[h]]]

\* a goroutine is between RLock and RUnlock (lines 335-337)
RLockHeld(h) ==
    \E u \in BagToSet(uploads[h]) : u.pc \in {"rlocked", "raced"}

\* the map was written while these goroutines were reading it (each
\* container has at most one goroutine here)
Raced(tasks) ==
    SetToBag({IF u.pc = "rlocked" THEN [u EXCEPT !.pc = "raced"] ELSE u :
                u \in BagToSet(tasks)})

\* lines 391-429, one entry: the map is written at line 424 with no lock
\* taken, and the goroutine of line 428 starts at once
ScanEntry(h) ==
    /\ scan[h].pc = "next"
    /\ scan[h].todo # {}
    /\ LET name == FirstEntry(scan[h].todo)
       IN  /\ scan' = [scan EXCEPT ![h].todo = @ \ {name}]
           /\ IF name \in Owned(h, disk[h])
              THEN /\ files' = [files EXCEPT ![h] =
                        Put(@, name,
                            [FID |-> ParseFID(name),
                             Size |-> Len(disk[h][name]), Uploaded |-> FALSE,
                             Uploading |-> FALSE, Blobs |-> << >>])]
                   /\ uploads' = [uploads EXCEPT ![h] =
                        Raced(@) (+)
                        One([UploadTask(name) EXCEPT !.pc = "rlock"])]
              ELSE /\ files' = files
                   /\ uploads' = uploads
    /\ UNCHANGED <<started, disk, sequenceCounter, adds, handlers, net, s3,
                   nAdds, resp, created, picked, applied, puts, disk0, replies, calls,
                   issued, codec>>

\* lines 432 and 99-102: the loop is over and NewFileBox returns
ScanDone(h) ==
    /\ scan[h].pc = "next"
    /\ scan[h].todo = {}
    /\ scan' = [scan EXCEPT ![h].pc = "done"]
    /\ started' = [started EXCEPT ![h] = TRUE]
    /\ UNCHANGED <<files, disk, sequenceCounter, adds, uploads, handlers, net,
                   s3, nAdds, resp, created, picked, applied, puts, disk0, replies,
                   calls, issued, codec>>

\* line 335
UploadRLock(h) ==
    /\ \E u \in BagToSet(uploads[h]) :
          /\ u.pc = "rlock"
          /\ uploads' = [uploads EXCEPT ![h] =
                (@ (-) One(u)) (+) One([u EXCEPT !.pc = "rlocked"])]
    /\ UNCHANGED <<started, files, disk, sequenceCounter, adds, handlers, net,
                   s3, nAdds, resp, created, picked, applied, puts, disk0,
                   replies, aside>>

\* lines 336-337: the map read and RUnlock.  A read that ran while the map
\* was written is a data race: it finds the entry, misses it (the goroutine
\* returns at line 340), or the runtime stops the process with "concurrent
\* map read and map write"
UploadRUnlock(h) ==
    /\ \E u \in BagToSet(uploads[h]),
          outcome \in {"found", "missing", "fatal"} :
          /\ u.pc \in {"rlocked", "raced"}
          /\ u.pc = "rlocked" => outcome = "found"
          /\ uploads' = [uploads EXCEPT ![h] =
                IF outcome = "found"
                THEN (@ (-) One(u)) (+) One([u EXCEPT !.pc = "check"])
                ELSE IF outcome = "missing" THEN @ (-) One(u)
                ELSE EmptyBag]
          /\ scan' = [scan EXCEPT ![h] =
                IF outcome = "fatal" THEN [pc |-> "fatal", todo |-> {}]
                ELSE @]
    /\ UNCHANGED <<started, files, disk, sequenceCounter, adds, handlers, net,
                   s3, nAdds, resp, created, picked, applied, puts, disk0, replies,
                   calls, issued, codec>>

\* lines 344-346, 368-370 and 376-379 wait for the readers
MarkUnderLock(h) == ~RLockHeld(h) /\ UploadMark(h)

FailedUnderLock(h) == ~RLockHeld(h) /\ UploadFailed(h)

DoneUnderLock(h) == ~RLockHeld(h) /\ UploadDone(h)

NextLock ==
    \E h \in Hosts :
        \/ ScanEntry(h)
        \/ ScanDone(h)
        \/ UploadRLock(h)
        \/ UploadRUnlock(h)
        \/ UploadCheck(h)
        \/ MarkUnderLock(h)
        \/ UploadPut(h)
        \/ FailedUnderLock(h)
        \/ DoneUnderLock(h)

SpecLock == InitLock /\ [][NextLock]_vars

(***************************************************************************)
(* POST /replicate from any client: forms with a field missing, with a     *)
(* container id that is no identifier, with an offset that is no number.   *)
(* Offsets are not negative.                                               *)
(***************************************************************************)
RECURSIVE Handled(_)
\* the requests the hosts of set have taken up and answered with no error
Handled(set) ==
    IF set = {} THEN 0
    ELSE LET h == CHOOSE x \in set : TRUE
         IN  BagCardinality(handlers[h]) + Cardinality(applied[h])
                + Handled(set \ {h})

\* requests sent so far, as far as the state shows them
Posted == BagCardinality(net) + Handled(Hosts) + Cardinality(replies)

\* the multipart forms a client may send to host h
Forms(h) ==
    {[to |-> h, file_id |-> id, blob |-> <<7>>, offset |-> o, length |-> l,
      host_id |-> 0, machine_id |-> 0] :
        id \in {<< >>, ShortName, NonHexName} \cup {OwnOldName(p) : p \in Hosts},
        o \in {<< >>, Decimal(0), Decimal(1), <<JUNK>>},
        l \in {<< >>, Decimal(1)}}

\* main.go: the handler is open to every client of the HTTP port
PostReplicate(h) ==
    /\ Posted < MaxPosts
    /\ \E m \in Forms(h) : net' = net (+) One(m)
    /\ UNCHANGED <<started, files, disk, sequenceCounter, adds, uploads,
                   handlers, s3, nAdds, resp, created, picked, applied, puts,
                   disk0, replies, aside>>

NextPeer ==
    \E h \in Hosts :
        \/ recoverFiles(h)
        \/ PostReplicate(h)
        \/ ReplicateRegister(h)
        \/ ReplicateWrite(h)
        \/ ReplicateSize(h)

SpecPeer == Init /\ [][NextPeer]_vars

(***************************************************************************)
(* The file service where every container file can be opened and every     *)
(* PutObject succeeds, with the goroutines scheduled fairly.               *)
(***************************************************************************)
OpenedMark(h) == UploadMarkOn(h, {TRUE})

StoredPut(h) == UploadPutOn(h, {TRUE})

NextLive ==
    \E h \in Hosts :
        \/ recoverFiles(h)
        \/ AddBlobBegin(h)
        \/ AddBlobCheck(h)
        \/ AddBlobReacquire(h)
        \/ AddBlobOpen(h)
        \/ AddBlobWrite(h)
        \/ AddBlobID(h)
        \/ AddBlobBook(h)
        \/ AddBlobFinish(h)
        \/ UploadCheck(h)
        \/ OpenedMark(h)
        \/ StoredPut(h)
        \/ UploadDone(h)
        \/ ReplicateRegister(h)
        \/ ReplicateWrite(h)
        \/ ReplicateSize(h)

\* every goroutine that can take a step takes one
Fairness ==
    \A h \in Hosts :
        /\ WF_vars(AddBlobFinish(h))
        /\ WF_vars(UploadCheck(h))
        /\ WF_vars(OpenedMark(h))
        /\ WF_vars(StoredPut(h))
        /\ WF_vars(UploadDone(h))

SpecLive == Init /\ [][NextLive]_vars /\ Fairness


(***************************************************************************)
(* Properties                                                              *)
(***************************************************************************)
\* containers a host allocated itself and no peer has written to
Local(h) ==
    {c \in created[h] : \A w \in applied[h] : w.file_id # c}

\* C1: under concurrent AddBlob calls on one host, no container's recorded
\* size exceeds the maximum container size (stated for the containers the
\* host allocated and that received no replicated write).
C1_SizeWithinMax ==
    \A h \in Hosts : \A c \in Local(h) : files[h][c].Size <= MaxFileSize

Range(b) == (b.Offset + 1)..(b.Offset + b.Length)

RECURSIVE SumLengths(_)
SumLengths(blobs) ==
    IF blobs = << >> THEN 0 ELSE Head(blobs).Length + SumLengths(Tail(blobs))

\* C2: the byte ranges recorded for the blobs submitted to one container are
\* pairwise disjoint, and their union is as long as the sum of the recorded
\* lengths.
C2_RangesDisjoint ==
    \A h \in Hosts : \A c \in Local(h) :
        LET blobs == files[h][c].Blobs
        IN  /\ \A i, j \in 1..Len(blobs) :
                  i # j => Range(blobs[i]) \cap Range(blobs[j]) = {}
            /\ Cardinality(UNION {Range(blobs[i]) : i \in 1..Len(blobs)})
                  = SumLengths(blobs)

InFlight(h, c) ==
    {u \in BagToSet(uploads[h]) : u.fid = c /\ u.pc = "put"}

\* C3: for every container of a host, at most one PutObject is in flight.
C3_OneUploadInFlight ==
    \A h \in Hosts : \A c \in DOMAIN files[h] :
        \A u \in InFlight(h, c) : CopiesIn(u, uploads[h]) <= 1


UploadState(cf) ==
    IF cf.Uploaded /\ cf.Uploading THEN "UploadedAndUploading"
    ELSE IF cf.Uploaded THEN "Uploaded"
    ELSE IF cf.Uploading THEN "Uploading"
    ELSE "NotUploaded"

Transitions ==
    {<<"NotUploaded", "Uploading">>, <<"Uploading", "Uploaded">>,
     <<"Uploading", "NotUploaded">>}

\* C4: a container's upload state changes only along NotUploaded -> Uploading,
\* Uploading -> Uploaded and Uploading -> NotUploaded, and once it is Uploaded
\* it stays so and no PutObject is issued for it any more.
C4_UploadStateMachine ==
    [][\A h \in Hosts : \A c \in DOMAIN files[h] :
          /\ c \in DOMAIN files'[h]
          /\ \/ UploadState(files'[h][c]) = UploadState(files[h][c])
             \/ <<UploadState(files[h][c]), UploadState(files'[h][c])>>
                    \in Transitions
          /\ UploadState(files[h][c]) = "Uploaded"
                => ~(\E p \in puts' \ puts : p.host = h /\ p.fid = c)]_vars

Attempts(h, c) ==
    {u \in BagToSet(uploads[h]) :
        u.fid = c /\ u.pc \in {"put", "failed", "done"}}

\* C5: a failure after the container was marked Uploading returns it to
\* NotUploaded, so a container is Uploading only while an attempt on it has
\* yet to finish.
C5_FailureResetsUploading ==
    \A h \in Hosts : \A c \in DOMAIN files[h] :
        files[h][c].Uploading => Attempts(h, c) # {}

\* every AddBlob call of host a on container c has returned, and every
\* replicate request for c has been written on host b
Settled(a, b, c) ==
    /\ \E r \in resp : r.ok /\ r.host = a /\ r.fid = c
    /\ \A t \in BagToSet(adds[a]) : t.fid # c
    /\ \A m \in BagToSet(net) : ~(m.to = b /\ m.file_id = c)
    /\ \A r \in BagToSet(handlers[b]) : ~(r.file_id = c /\ r.to = "write")

\* C6: once the blobs submitted on host a are all replicated to host b, which
\* submitted nothing to that container itself, b's file is byte-identical to
\* a's file of the same identifier.
C6_ReplicaIdentical ==
    \A a \in Hosts : \A b \in Peers(a) : \A c \in created[a] :
        (c \notin picked[b] /\ Settled(a, b, c))
            => c \in DOMAIN disk[b] /\ disk[b][c] = disk[a][c]

\* C9: GetBlob with the id a successful AddBlob returned on the same host
\* yields the submitted bytes.
C9_FetchRoundTrip ==
    \A r \in resp :
        r.ok => GetBlob(r.host, r.id) = [err |-> "", data |-> r.data]


\* the machine id an identifier string carries: its first eight digits
EmbeddedMachineID(fidStr) == FromHex(SubSeq(fidStr, 1, 8))

\* C7: every PutObject uses the key files/<creatorMachineId>/<identifierHex>,
\* built from the identifier alone, so hosts holding the same identifier use
\* the same key.
C7_KeyFromIdentifier ==
    \A p \in puts :
        /\ p.key = <<"files", Decimal(EmbeddedMachineID(p.fid)), p.fid>>
        /\ \A q \in puts : q.fid = p.fid => q.key = p.key

\* two hosts with different machine ids have uploaded the same identifier
C7_Witness ==
    \E p, q \in puts :
        /\ p.fid = q.fid
        /\ generateMachineID(p.host) # generateMachineID(q.host)

NeverSeen(h, c) == c \notin created[h] /\ c \notin DOMAIN disk0[h]

Disjoint(w1, w2) ==
    \/ w1.offset + w1.length <= w2.offset
    \/ w2.offset + w2.length <= w1.offset

\* C8: a replicated write of bytes D at offset O to a container the receiver
\* had never seen leaves bytes [O, O+L) equal to D, whatever non-overlapping
\* replicated writes to the same container are applied before or after it.
C8_PositionalWrite ==
    \A h \in Hosts : \A w \in applied[h] :
        (/\ NeverSeen(h, w.file_id)
         /\ \A v \in applied[h] \ {w} :
               v.file_id = w.file_id => Disjoint(w, v))
            => /\ Len(disk[h][w.file_id]) >= w.offset + w.length
               /\ SubSeq(disk[h][w.file_id], w.offset + 1,
                         w.offset + w.length) = w.blob

\* two non-overlapping replicated writes were applied to a container the
\* receiver had never seen, the request for the lower range still running
C8_Witness ==
    \E h \in Hosts : \E w, v \in applied[h] :
        /\ NeverSeen(h, w.file_id)
        /\ v.file_id = w.file_id
        /\ w.offset + w.length <= v.offset
        /\ \E r \in BagToSet(handlers[h]) :
              r.to = "size" /\ r.file_id = w.file_id /\ r.offset = w.offset

IsIdentifier(name) ==
    Len(name) = 32 /\ \A i \in 1..Len(name) : name[i] \in HexDigits

\* C10: the recovery scan registers exactly the entries whose name is an
\* identifier carrying this host's machine id, each with size = file length,
\* no locator and no upload flag, starts one upload for each of them and for
\* no other entry, and leaves every file on disk as it was.
C10_RecoveryRegistersOwned ==
    [][\A h \in Hosts :
          (~started[h] /\ started'[h]) =>
              LET own == {name \in DOMAIN disk[h] :
                            /\ IsIdentifier(name)
                            /\ SubSeq(name, 1, 8)
                                  = Hex8(generateMachineID(h))}
              IN  /\ DOMAIN files'[h] = own
                  /\ \A name \in own :
                        /\ files'[h][name].Size = Len(disk[h][name])
                        /\ files'[h][name].Blobs = << >>
                        /\ UploadState(files'[h][name]) = "NotUploaded"
                  /\ {u.fid : u \in BagToSet(uploads'[h])} = own
                  /\ \A u \in BagToSet(uploads'[h]) :
                        u.pc = "check" /\ CopiesIn(u, uploads'[h]) = 1
                  /\ disk' = disk]_vars

\* a host has scanned a directory holding a container of its own, a replica of
\* a peer's container and entries that are no identifier
C10_Witness ==
    \E h \in Hosts :
        /\ started[h]
        /\ nAdds = 0
        /\ \E name \in DOMAIN disk[h] : name \in DOMAIN files[h]
        /\ \E name \in DOMAIN disk[h] :
              IsIdentifier(name) /\ name \notin DOMAIN files[h]
        /\ \E name \in DOMAIN disk[h] : ~IsIdentifier(name)


\* C11: a host only issues PutObject for containers whose identifier carries
\* its own machine id.
C11_UploadsOwnContainersOnly ==
    \A p \in puts : EmbeddedMachineID(p.fid) = generateMachineID(p.host)

Rejections(r) == {x \in r : ~x.ok}

\* C12: a blob larger than the maximum container size is rejected with the
\* size error and never enters the write path, and the rejecting call leaves
\* every registry, every storage directory and every background activity as
\* they were.
C12_TooLargeRejected ==
    [][/\ \A r \in resp' :
            Len(r.data) > MaxFileSize
                => ~r.ok /\ r.err = "blob size exceeds maximum file size"
       /\ \A h \in Hosts : \A t \in BagToSet(adds'[h]) :
            Len(t.data) <= MaxFileSize
       /\ Rejections(resp') # Rejections(resp)
            => /\ files' = files
               /\ disk' = disk
               /\ sequenceCounter' = sequenceCounter
               /\ adds' = adds
               /\ uploads' = uploads
               /\ net' = net
               /\ s3' = s3]_vars

\* an oversized blob was rejected on a host that holds a container
C12_Witness ==
    \E r \in resp :
        /\ ~r.ok
        /\ Len(r.data) > MaxFileSize
        /\ \E c \in DOMAIN files[r.host] : files[r.host][c].Size > 0

\* the AddBlob calls that a step of host h has just handed a container: a
\* call that entered at line 161, or one that left line 171
Acquired(h) ==
    LET reacquired == \E t \in BagToSet(adds[h]) :
                         /\ t.pc = "reacquire"
                         /\ CopiesIn(t, adds'[h]) < CopiesIn(t, adds[h])
    IN  {t \in BagToSet(adds'[h]) :
            /\ CopiesIn(t, adds'[h]) > CopiesIn(t, adds[h])
            /\ \/ t.pc = "check"
               \/ t.pc = "open" /\ reacquired}

Open(cf, n) == ~cf.Uploaded /\ ~cf.Uploading /\ cf.Size + n <= MaxFileSize

\* "60 then 60": two blobs that do not fit one container together are in
\* two distinct containers
SixtySixty ==
    \A r1, r2 \in resp :
        (/\ r1.ok /\ r2.ok /\ r1.host = r2.host /\ r1.call # r2.call
         /\ Len(r1.data) + Len(r2.data) > MaxFileSize)
            => r1.fid # r2.fid

\* "40, 40, 40": of three equal blobs of which two fit one container and
\* three do not, submitted first to an empty registry, the first two share a
\* container and the third is in a new one
FortyFortyForty ==
    \A r1, r2, r3 \in resp :
        (/\ r1.ok /\ r2.ok /\ r3.ok
         /\ r1.call = 1 /\ r2.call = 2 /\ r3.call = 3
         /\ Len(r1.data) = Len(r2.data) /\ Len(r2.data) = Len(r3.data)
         /\ 2 * Len(r1.data) <= MaxFileSize
         /\ 3 * Len(r1.data) > MaxFileSize)
            => r1.fid = r2.fid /\ r3.fid # r1.fid

UploadStep == uploads' # uploads /\ adds' = adds

\* the descriptors of host h keep their sizes and locator lists
SameBlobs(h) ==
    \A c \in DOMAIN files[h] :
        /\ c \in DOMAIN files'[h]
        /\ files'[h][c].Size = files[h][c].Size
        /\ files'[h][c].Blobs = files[h][c].Blobs

\* C14: a call whose local write and bookkeeping are complete can return,
\* whatever the state of the replication requests and uploads; it returns
\* success with the locator it recorded; no step of an upload or of a peer's
\* replication handler changes a response or the size and locator list of a
\* descriptor on the submitting host.
C14_ResultIndependent ==
    /\ [](\A h \in Hosts :
            (\E t \in BagToSet(adds[h]) : t.pc = "finish")
                => ENABLED AddBlobFinish(h))
    /\ [][/\ resp \subseteq resp'
          /\ \A r \in resp' \ resp :
                r.ok => \E t \in BagToSet(adds[r.host]) :
                           /\ t.pc = "finish"
                           /\ r.id = BlobID(t.fid, t.ord)
                           /\ r.data = t.data
                           /\ \E i \in DOMAIN files[r.host][t.fid].Blobs :
                                 files[r.host][t.fid].Blobs[i] = BlobInfo(t)
          /\ UploadStep =>
                /\ resp' = resp
                /\ \A h \in Hosts : started[h] => SameBlobs(h)
          /\ \A p \in Hosts :
                handlers'[p] # handlers[p] =>
                    /\ resp' = resp
                    /\ adds' = adds
                    /\ \A h \in Hosts \ {p} : files'[h] = files[h]]_vars

\* a call has returned success although a replication request for its blob
\* is still undelivered and the upload it triggered has failed
C14_Witness ==
    \E r \in resp :
        /\ r.ok /\ r.trigger
        /\ \E m \in BagToSet(net) :
              m.host_id = r.host /\ m.file_id = r.fid /\ m.blob = r.data
        /\ \E u \in puts :
              u.host = r.host /\ u.fid = r.fid /\ u.key \notin DOMAIN s3
        /\ \A u \in BagToSet(uploads[r.host]) : u.fid # r.fid
        /\ UploadState(files[r.host][r.fid]) = "NotUploaded"
        /\ \E i \in DOMAIN files[r.host][r.fid].Blobs :
              files[r.host][r.fid].Blobs[i].ID = r.id

\* the locators of a list lie end to end from offset 0
Contiguous(blobs) ==
    \A i \in DOMAIN blobs :
        blobs[i].Offset = SumLengths(SubSeq(blobs, 1, i - 1))

\* C15: every container a host allocated itself has a size equal to the sum
\* of its locators' lengths, and its locators are contiguous from offset 0.
C15_CreatorContiguous ==
    \A h \in Hosts : \A c \in created[h] :
        /\ files[h][c].Size = SumLengths(files[h][c].Blobs)
        /\ Contiguous(files[h][c].Blobs)

\* C19: the ordinal in a locator's id is the locator's position in its
\* container's list, and no two successful AddBlob calls on a host return the
\* same id.
C19_OrdinalIsPosition ==
    /\ \A h \in Hosts : \A c \in DOMAIN files[h] :
          \A i \in DOMAIN files[h][c].Blobs :
              files[h][c].Blobs[i].ID = BlobID(c, i - 1)
    /\ \A r1, r2 \in resp :
          (r1.ok /\ r2.ok /\ r1.host = r2.host /\ r1.call # r2.call)
              => r1.id # r2.id

\* C20: a call has issued an upload trigger exactly when its own update of
\* lines 198-201 left the container's size at the maximum or above.
C20_TriggerIffFull ==
    \A r \in resp : r.ok => (r.trigger <=> r.size >= MaxFileSize)

\* C16: the FIDs one process has generated are pairwise different, as values
\* and as strings, and their sequence numbers strictly increase in the order
\* in which the calls incremented the counter.
C16_DistinctIdentifiers ==
    \A h \in Hosts : \A i, j \in DOMAIN issued[h] :
        i < j => /\ issued[h][i].Sequence < issued[h][j].Sequence
                 /\ issued[h][i] # issued[h][j]
                 /\ String(issued[h][i]) # String(issued[h][j])

\* two calls of one process that ran at the same time and read the same
\* second have both returned
C16_Witness ==
    \E h \in Hosts : \E i, j \in DOMAIN issued[h] :
        /\ i < j
        /\ issued[h][i].Timestamp = issued[h][j].Timestamp
        /\ issued[h][i].MachineID = issued[h][j].MachineID

\* C17: the string of a FID has exactly 32 hexadecimal characters, and
\* ParseFID of it succeeds and returns the FID's machine id, timestamp and
\* sequence.
C17_RoundTrip ==
    /\ codec.stage \in {"string", "parsed", "error"}
          => Len(codec.str) = 32 /\ \A i \in 1..32 : codec.str[i] \in HexDigits
    /\ codec.stage # "error"
    /\ codec.stage = "parsed"
          => /\ codec.out.MachineID = codec.fid.MachineID
             /\ codec.out.Timestamp = codec.fid.Timestamp
             /\ codec.out.Sequence = codec.fid.Sequence

\* C18: no step changes a host's registry or a descriptor while a goroutine
\* of that host holds the read lock: mutations are made under the exclusive
\* lock.
C18_MutationsExclusive ==
    [][\A h \in Hosts : files'[h] # files[h] => ~RLockHeld(h)]_vars

\* the handler requests of host h that end their size update in this step
SizeUpdated(h) ==
    {r \in BagToSet(handlers[h]) :
        r.to = "size" /\ handlers'[h] = handlers[h] (-) One(r)}

\* C21: the size update of a peer write with offset O and length L leaves
\* the container's size at max(previous size, O + L), never smaller than
\* before, and changes neither its locator list nor its upload flags nor any
\* other container.
C21_PeerWriteGrowsSize ==
    [][\A h \in Hosts : \A r \in SizeUpdated(h) :
          LET old == files[h][r.file_id]
              new == files'[h][r.file_id]
              end == r.offset + r.length
          IN  /\ new.Size = IF end > old.Size THEN end ELSE old.Size
              /\ new.Size >= old.Size
              /\ new.Blobs = old.Blobs
              /\ new.Uploaded = old.Uploaded
              /\ new.Uploading = old.Uploading
              /\ new.FID = old.FID
              /\ \A c \in DOMAIN files[h] \ {r.file_id} :
                    files'[h][c] = files[h][c]]_vars

\* two peer writes to one container, one range after the other, have been
\* applied, and the size is the end of the later range
C21_Witness ==
    \E h \in Hosts : \E w1, w2 \in applied[h] :
        /\ w1.file_id = w2.file_id
        /\ w1.offset + w1.length <= w2.offset
        /\ handlers[h] = EmptyBag
        /\ \A m \in BagToSet(net) : m.to # h
        /\ files[h][w1.file_id].Size = w2.offset + w2.length
        /\ files[h][w1.file_id].Blobs = << >>

\* the request m that host h takes up in this step
TakenUp(h) == {m \in BagToSet(net) : m.to = h /\ net' = net (-) One(m)}

Appended(h) ==
    {c \in DOMAIN files[h] :
        \/ Len(files'[h][c].Blobs) > Len(files[h][c].Blobs)
        \/ /\ adds'[h] # adds[h]
           /\ c \in DOMAIN disk[h]
           /\ Len(disk'[h][c]) > Len(disk[h][c])}

\* C23: an AddBlob call writes bytes to a container file and adds a locator
\* to its descriptor only while the container is NotUploaded.
C23_NoAppendAfterUploadStart ==
    [][\A h \in Hosts : \A c \in Appended(h) :
          UploadState(files[h][c]) = "NotUploaded"]_vars

\* C24: every container an AddBlob call of a host has opened for appending
\* its blob carries that host's machine id.
C24_AppendsToOwnContainersOnly ==
    \A h \in Hosts : \A c \in picked[h] :
        EmbeddedMachineID(c) = generateMachineID(h)

\* C25: no container has Uploaded and Uploading set together.
C25_FlagsExclusive ==
    \A h \in Hosts : \A c \in DOMAIN files[h] :
        ~(files[h][c].Uploaded /\ files[h][c].Uploading)

Uploaded(h, c) == c \in DOMAIN files[h] /\ files[h][c].Uploaded

\* the descriptor of c on host h records a size at the maximum or above
ReachedMax(h, c) ==
    c \in DOMAIN files[h] /\ files[h][c].Size >= MaxFileSize

\* the update of lines 198-201 in an AddBlob call of host h has left the
\* size of c at the maximum or above
FilledByAppend(h, c) ==
    \/ \E t \in BagToSet(adds[h]) :
          t.pc = "finish" /\ t.fid = c /\ t.size >= MaxFileSize
    \/ \E r \in resp :
          r.ok /\ r.host = h /\ r.fid = c /\ r.size >= MaxFileSize

\* A size never shrinks, a response is never withdrawn and Uploaded is never
\* reset, so "each such container is eventually Uploaded" is "from some point
\* on, all such containers are Uploaded".

============================================================================
